---- MODULE Spec2Model ----
(***************************************************************************)
(* Model of src/daemon/https/tls/gnutls_compress_int.c: the compression    *)
(* handle (mhd_gtls_comp_init / mhd_gtls_comp_deinit) and the two record   *)
(* transforms (mhd_gtls_compress / mhd_gtls_decompress) on top of the zlib *)
(* stream engine, with the allocator and the callers as environment.       *)
(***************************************************************************)
EXTENDS Integers, Sequences, FiniteSets, TLC

(***************************************************************************)
(* Bounds of the model.                                                    *)
(***************************************************************************)
\* engine calls the unconstrained engine may make continue within one call
MaxIter == 3
\* records the write side numbers for in-order delivery to the read side
MaxRecords == 2
\* forged records one read handle is given
MaxForged == 2
\* calls a thread makes in the two-thread specification
MaxCallsMT == 3
\* calls the caller makes in the specification with fairness
MaxCallsLive == 4

(***************************************************************************)
(* Program constants.                                                      *)
(***************************************************************************)
GNUTLS_E_MEMORY_ERROR == -25
GNUTLS_E_DECOMPRESSION_FAILED == -26
GNUTLS_E_COMPRESSION_FAILED == -27
GNUTLS_E_INTERNAL_ERROR == -59
EXTRA_COMP_SIZE == 2048
\* out_size += 512
GROW_STEP == 512

MHD_GNUTLS_COMP_NULL == "COMP_NULL"
MHD_GNUTLS_COMP_DEFLATE == "COMP_DEFLATE"
Methods == {MHD_GNUTLS_COMP_NULL, MHD_GNUTLS_COMP_DEFLATE}

Z_OK == "Z_OK"
Z_BUF_ERROR == "Z_BUF_ERROR"
Z_DATA_ERROR == "Z_DATA_ERROR"
Z_MEM_ERROR == "Z_MEM_ERROR"
ZStatus == {Z_OK, Z_BUF_ERROR, Z_DATA_ERROR}

(***************************************************************************)
(* Pointers.  A block of memory is named by what it holds; NULL is the     *)
(* null pointer and WILD an indeterminate non-null value (an uninitialised *)
(* local of the caller).                                                   *)
(***************************************************************************)
Threads == {1, 2}
Slots == {1, 2, 3}
NULL == <<>>
WILD == <<"wild", 0>>
HdBlock(s) == <<"comp_hd_t", s>>
ZBlock(s) == <<"z_stream", s>>
BufBlock(t) == <<"buf", t>>

Min(a, b) == IF a < b THEN a ELSE b

(***************************************************************************)
(* Byte strings.  A byte string is a sequence of items [t, k, n]:          *)
(*   raw  : n plain bytes of content k                                     *)
(*   hdr  : the 2-byte zlib stream header                                  *)
(*   lit  : n bytes coding n plain bytes of content k (no gain)            *)
(*   rep  : a 2-byte match coding n plain bytes of content k               *)
(*   sync : the 4-byte empty stored block a sync flush ends with           *)
(*   bad  : n bytes that are no valid code                                 *)
(***************************************************************************)
Item(t, k, n) == [t |-> t, k |-> k, n |-> n]
Raw(k, n) == Item("raw", k, n)
Hdr == Item("hdr", "-", 2)
Lit(k, n) == Item("lit", k, n)
Rep(k, n) == Item("rep", k, n)
Sync == Item("sync", "-", 4)
Bad(n) == Item("bad", "-", n)

Splittable(i) == i.t \in {"raw", "lit", "bad"}
ILen(i) == IF i.t = "rep" THEN 2 ELSE i.n

RECURSIVE BLen(_)
BLen(b) == IF b = <<>> THEN 0 ELSE ILen(Head(b)) + BLen(Tail(b))

\* b followed by item i, adjacent plain bytes of one content merged
Push(b, i) ==
  IF ILen(i) = 0 THEN b
  ELSE IF b # <<>> /\ i.t = "raw" /\ b[Len(b)].t = "raw" /\ b[Len(b)].k = i.k
       THEN [b EXCEPT ![Len(b)].n = @ + i.n]
       ELSE Append(b, i)

RECURSIVE BCat(_, _)
BCat(a, b) == IF b = <<>> THEN a ELSE BCat(Push(a, Head(b)), Tail(b))

\* the first n bytes of i; part of an unsplittable code is no valid code
ICut(i, n) == IF Splittable(i) THEN [i EXCEPT !.n = n] ELSE Bad(n)

RECURSIVE BTake(_, _)
BTake(b, n) ==
  IF n <= 0 \/ b = <<>> THEN <<>>
  ELSE IF ILen(Head(b)) <= n
       THEN BCat(<<Head(b)>>, BTake(Tail(b), n - ILen(Head(b))))
       ELSE <<ICut(Head(b), n)>>

RECURSIVE BDrop(_, _)
BDrop(b, n) ==
  IF n <= 0 \/ b = <<>> THEN b
  ELSE IF ILen(Head(b)) <= n
       THEN BDrop(Tail(b), n - ILen(Head(b)))
       ELSE <<ICut(Head(b), ILen(Head(b)) - n)>> \o Tail(b)

\* memory d after w is written at offset o ("?" marks bytes never written)
WriteAt(d, o, w) ==
  LET dd == IF o > BLen(d) THEN BCat(d, <<Raw("?", o - BLen(d))>>) ELSE d
  IN  BCat(BCat(BTake(dd, o), w), BDrop(dd, o + BLen(w)))

(***************************************************************************)
(* The stream engine (zlib), as the adapter sees it: a z_stream holds the  *)
(* cursors the adapter sets (next_in, avail_in, next_out, avail_out) and   *)
(* the engine's own state: mode (HEAD before the stream header, BLOCKS     *)
(* after it, BAD after a data error) and pend, the output the engine has   *)
(* decoded or coded and not yet delivered.                                 *)
(***************************************************************************)
ZUninit ==
  [dir |-> "none", mode |-> "UNINIT", pend |-> <<>>, next_in |-> <<>>,
   avail_in |-> 0, next_out |-> NULL, out_off |-> 0, avail_out |-> 0]

\* inflateInit2 / deflateInit2 on success
StreamInit(z, d) ==
  [z EXCEPT !.dir = IF d = 1 THEN "inflate" ELSE "deflate",
            !.mode = "HEAD", !.pend = <<>>]

\* content the coder finds redundant: a run of it is coded as one match
Redundant(k) == k # "X"

RECURSIVE Encode(_)
Encode(p) ==
  IF p = <<>> THEN <<>>
  ELSE LET i == Head(p)
       IN  <<IF Redundant(i.k) /\ i.n >= 3 THEN Rep(i.k, i.n) ELSE Lit(i.k, i.n)>>
           \o Encode(Tail(p))

\* deflate (zhandle, Z_SYNC_FLUSH): all input is taken, the record is coded
\* and ended with a sync marker; what does not fit avail_out stays pending.
\* A flush with no input right after a flush does nothing: Z_BUF_ERROR.
Deflate(z) ==
  IF z.mode = "BLOCKS" /\ z.avail_in = 0 /\ z.pend = <<>>
  THEN [ret |-> Z_BUF_ERROR, z |-> z, out |-> <<>>]
  ELSE LET coded == BCat(z.pend,
                         (IF z.mode = "HEAD" THEN <<Hdr>> ELSE <<>>)
                         \o Encode(z.next_in) \o <<Sync>>)
           w == Min(z.avail_out, BLen(coded))
       IN  [ret |-> Z_OK,
            z |-> [z EXCEPT !.mode = "BLOCKS", !.pend = BDrop(coded, w),
                            !.next_in = <<>>, !.avail_in = 0,
                            !.out_off = @ + w, !.avail_out = @ - w],
            out |-> BTake(coded, w)]

\* The decoder: delivers pending output first, then decodes input items in
\* order; it stops when output is needed and no room is left, when the input
\* is used up, or at a data error.  A match is read whole and then delivered
\* as room allows, so input can be used up with output still pending.
RECURSIVE InflateRun(_, _, _, _, _)
InflateRun(mode, pend, in, left, out) ==
  LET stop(m, e) == [mode |-> m, pend |-> pend, in |-> in, left |-> left,
                     out |-> out, bad |-> e]
  IN  IF mode # "HEAD" /\ mode # "BLOCKS" THEN stop(mode, TRUE)
      ELSE IF pend # <<>>
      THEN IF left = 0 THEN stop(mode, FALSE)
           ELSE LET w == Min(left, BLen(pend))
                IN  InflateRun(mode, BDrop(pend, w), in, left - w,
                               BCat(out, BTake(pend, w)))
      ELSE IF in = <<>> THEN stop(mode, FALSE)
      ELSE LET i == Head(in)
           IN  IF mode = "HEAD"
               THEN IF i.t = "hdr"
                    THEN InflateRun("BLOCKS", pend, Tail(in), left, out)
                    ELSE stop("BAD", TRUE)
               ELSE IF i.t = "sync"
               THEN InflateRun(mode, pend, Tail(in), left, out)
               ELSE IF i.t = "rep"
               THEN InflateRun(mode, <<Raw(i.k, i.n)>>, Tail(in), left, out)
               ELSE IF i.t = "lit"
               THEN IF left = 0 THEN stop(mode, FALSE)
                    ELSE LET w == Min(left, i.n)
                         IN  InflateRun(mode, pend, BDrop(in, w), left - w,
                                        BCat(out, <<Raw(i.k, w)>>))
               ELSE stop("BAD", TRUE)

\* inflate (zhandle, Z_SYNC_FLUSH): Z_OK when input was used or output
\* delivered, Z_BUF_ERROR when no progress was possible.
Inflate(z) ==
  LET r == InflateRun(z.mode, z.pend, z.next_in, z.avail_out, <<>>)
  IN  [ret |-> IF r.bad THEN Z_DATA_ERROR
               ELSE IF BLen(r.in) < BLen(z.next_in) \/ r.out # <<>> THEN Z_OK
               ELSE Z_BUF_ERROR,
       z |-> [z EXCEPT !.mode = r.mode, !.pend = r.pend, !.next_in = r.in,
                       !.avail_in = BLen(r.in),
                       !.out_off = @ + BLen(r.out), !.avail_out = r.left],
       out |-> r.out]

\* An engine bound only by its interface: any status, any part of the input
\* used, any part of the output room filled.
AnyEngine(z) ==
  { [ret |-> st,
     z |-> [z EXCEPT !.next_in = BDrop(@, used), !.avail_in = @ - used,
                     !.out_off = @ + made, !.avail_out = @ - made],
     out |-> IF made = 0 THEN <<>> ELSE <<Raw("J", made)>>] :
    st \in ZStatus, used \in {0, z.avail_in}, made \in {0, z.avail_out} }

\* an engine held to its contract only: Z_OK when the call used input or
\* made output, Z_BUF_ERROR when it could do neither
ContractEngine(z) ==
  { o \in AnyEngine(z) :
      LET progress == o.z.avail_in < z.avail_in \/ o.z.avail_out < z.avail_out
      IN /\ o.ret = Z_OK => progress
         /\ o.ret = Z_BUF_ERROR => ~progress }

\* the total output the decoder holds or would produce for the input
TrueSize(z, in) ==
  BLen(InflateRun(z.mode, z.pend, in, BLen(z.pend) + 1000000, <<>>).out)

(***************************************************************************)
(* State.                                                                  *)
(*   err, cur_pos : the two variables the functions use without declaring  *)
(*                  them, hence of file scope and shared by all callers    *)
(*   allocated    : the blocks the allocator has handed out                *)
(*   badfree      : a block was freed that was not allocated               *)
(*   hdmem, zmem  : contents of the comp_hd_t and z_stream blocks          *)
(*   bufmem       : size and written bytes of each output buffer           *)
(*   pc, fr       : per thread, the position in the running function and   *)
(*                  its arguments and locals (with a trace of the call:    *)
(*                  ecalls, nalloc, nfree, oom, z0, own_err, own_cur_pos)  *)
(*   hvar         : the callers' handle variables: slot 1 is a session's   *)
(*                  write state (d = 0), slot 2 its read state (d = 1),    *)
(*                  slot 3 the read state of another session               *)
(*   wire, cseq, dnext : records coded by slot 1 and not yet handed to     *)
(*                  slot 2, the number coded, the number slot 2 expects    *)
(*   nforged      : per slot, records given to its handle that slot 1 has  *)
(*                  not coded                                              *)
(*   engine       : "zlib" (the engine as documented), "contract" (Z_OK   *)
(*                  only with progress, Z_BUF_ERROR only without) or "any" *)
(*   left         : per thread, the calls it may still start (-1: no      *)
(*                  limit)                                                 *)
(***************************************************************************)
VARIABLES err, cur_pos, allocated, badfree, hdmem, zmem, bufmem,
          pc, fr, hvar, wire, cseq, dnext, nforged, engine, left

vars == <<err, cur_pos, allocated, badfree, hdmem, zmem, bufmem,
          pc, fr, hvar, wire, cseq, dnext, nforged, engine, left>>

memvars == <<allocated, badfree, hdmem, zmem, bufmem>>
callervars == <<hvar, wire, cseq, dnext, nforged>>

HdNone == [algo |-> MHD_GNUTLS_COMP_NULL, handle |-> NULL]
BufNone == [size |-> 0, data |-> <<>>]

FrIdle ==
  [fn |-> "none", s |-> 1, handle |-> NULL, method |-> MHD_GNUTLS_COMP_NULL,
   d |-> 0, ret |-> NULL, in |-> <<>>, in_size |-> 0, max |-> 0,
   outp |-> NULL, size |-> 0, out_size |-> 0, rv |-> 0,
   ecalls |-> 0, nalloc |-> 0, nfree |-> 0, oom |-> FALSE, z0 |-> ZUninit,
   own_err |-> Z_OK, own_cur_pos |-> 0,
   from_wire |-> FALSE, expect |-> <<>>, true_size |-> 0]

\* inputs of the callers
Plains == { <<>>, <<Raw("A", 1100)>>, <<Raw("X", 600)>> }
MaxSizes == {600, 1100}
\* compressed records of a peer that does not use the coder
Forged == { <<>>, <<Rep("A", 700)>>, <<Bad(5)>>, <<Lit("X", 3000)>> }
ForgedFor(z) == { (IF z.mode = "HEAD" /\ f # <<>> THEN <<Hdr>> ELSE <<>>) \o f :
                  f \in Forged }

Init0 ==
  /\ err = Z_OK
  /\ cur_pos = 0
  /\ allocated = {}
  /\ badfree = FALSE
  /\ hdmem = [s \in Slots |-> HdNone]
  /\ zmem = [s \in Slots |-> ZUninit]
  /\ bufmem = [t \in Threads |-> BufNone]
  /\ pc = [t \in Threads |-> "idle"]
  /\ fr = [t \in Threads |-> FrIdle]
  /\ hvar = [s \in Slots |-> NULL]
  /\ wire = <<>>
  /\ cseq = 0
  /\ dnext = 0
  /\ nforged = [s \in Slots |-> 0]

Init ==
  /\ Init0
  /\ engine \in {"zlib", "any"}
  /\ left = [t \in Threads |-> -1]

(***************************************************************************)
(* The allocator: gnutls_malloc may fail; gnutls_free of NULL does nothing *)
(* and of a block that is not allocated is an error.                       *)
(***************************************************************************)
Free(A, p) == A \ {p}
IsBadFree(A, p) == p # NULL /\ p \notin A

\* a thread's frame on return
Returned(f, rv) == [f EXCEPT !.rv = rv]

(***************************************************************************)
(* mhd_gtls_comp_init (method, d)                                          *)
(***************************************************************************)
\* the direction flag of a slot: non zero is decompress
SlotDir(s) == IF s = 1 THEN 0 ELSE 1

CallInit(t, s) ==
  /\ pc[t] = "idle"
  /\ hvar[s] = NULL
  /\ \E method \in Methods :
       fr' = [fr EXCEPT ![t] = [FrIdle EXCEPT !.fn = "comp_init", !.s = s,
                                              !.method = method, !.d = SlotDir(s)]]
  /\ pc' = [pc EXCEPT ![t] = "init_alloc"]
  /\ UNCHANGED <<err, cur_pos, memvars, callervars, engine, left>>

\* the cleanup without the free
CleanupRet_leak(A, ret) == A

\* cleanup_ret: gnutls_free (ret); return NULL
CleanupRet(A, ret) == Free(A, ret)

\* the construction without the algorithm tag
NewHandle_no_tag(method, zhandle) ==
  [algo |-> MHD_GNUTLS_COMP_NULL, handle |-> zhandle]

\* ret->algo = method; ret->handle = NULL or the z_stream allocated
NewHandle(method, zhandle) == [algo |-> method, handle |-> zhandle]

\* ret = gnutls_malloc (...); ret->algo = method; ret->handle = NULL;
\* for deflate: ret->handle = gnutls_malloc (sizeof (z_stream))
init_alloc(t) ==
  LET f == fr[t]
      s == f.s
  IN
  /\ pc[t] = "init_alloc"
  /\ \/ \* the handle cannot be allocated
        /\ fr' = [fr EXCEPT ![t] = [f EXCEPT !.ret = NULL, !.oom = TRUE]]
        /\ pc' = [pc EXCEPT ![t] = "ret"]
        /\ UNCHANGED memvars
     \/ /\ f.method = MHD_GNUTLS_COMP_NULL
        /\ allocated' = allocated \cup {HdBlock(s)}
        /\ hdmem' = [hdmem EXCEPT ![s] = NewHandle(f.method, NULL)]
        /\ fr' = [fr EXCEPT ![t] = [f EXCEPT !.ret = HdBlock(s), !.nalloc = 1]]
        /\ pc' = [pc EXCEPT ![t] = "ret"]
        /\ UNCHANGED <<badfree, zmem, bufmem>>
     \/ \* the z_stream cannot be allocated
        /\ f.method = MHD_GNUTLS_COMP_DEFLATE
        /\ allocated' = CleanupRet(allocated \cup {HdBlock(s)}, HdBlock(s))
        /\ hdmem' = [hdmem EXCEPT ![s] = NewHandle(f.method, NULL)]
        /\ fr' = [fr EXCEPT ![t] = [f EXCEPT !.ret = NULL, !.oom = TRUE,
                                             !.nalloc = 1, !.nfree = 1]]
        /\ pc' = [pc EXCEPT ![t] = "ret"]
        /\ UNCHANGED <<badfree, zmem, bufmem>>
     \/ /\ f.method = MHD_GNUTLS_COMP_DEFLATE
        /\ allocated' = allocated \cup {HdBlock(s), ZBlock(s)}
        /\ hdmem' = [hdmem EXCEPT ![s] = NewHandle(f.method, ZBlock(s))]
        /\ zmem' = [zmem EXCEPT ![s] = ZUninit]
        /\ fr' = [fr EXCEPT ![t] = [f EXCEPT !.ret = HdBlock(s), !.nalloc = 2]]
        /\ pc' = [pc EXCEPT ![t] = "init_engine"]
        /\ UNCHANGED <<badfree, bufmem>>
  /\ UNCHANGED <<err, cur_pos, callervars, engine, left>>

\* err = inflateInit2 (...) or err = deflateInit2 (...)
init_engine(t) ==
  LET f == fr[t]
      s == f.s
  IN
  /\ pc[t] = "init_engine"
  /\ \E e \in {Z_OK, Z_MEM_ERROR} :
       /\ err' = e
       /\ zmem' = [zmem EXCEPT ![s] = IF e = Z_OK THEN StreamInit(@, f.d) ELSE @]
       /\ fr' = [fr EXCEPT ![t] = [f EXCEPT !.ecalls = @ + 1, !.own_err = e]]
  /\ pc' = [pc EXCEPT ![t] = "init_check"]
  /\ UNCHANGED <<cur_pos, allocated, badfree, hdmem, bufmem, callervars, engine, left>>

\* if (err != Z_OK) { gnutls_free (ret->handle); goto cleanup_ret; } return ret
init_check(t) ==
  LET f == fr[t]
      s == f.s
  IN
  /\ pc[t] = "init_check"
  /\ IF err # Z_OK
     THEN /\ allocated' = CleanupRet(Free(allocated, hdmem[s].handle), f.ret)
          /\ badfree' = (badfree \/ IsBadFree(allocated, hdmem[s].handle)
                         \/ IsBadFree(Free(allocated, hdmem[s].handle), f.ret))
          /\ fr' = [fr EXCEPT ![t] = [f EXCEPT !.ret = NULL, !.nfree = @ + 2]]
     ELSE UNCHANGED <<allocated, badfree, fr>>
  /\ pc' = [pc EXCEPT ![t] = "ret"]
  /\ UNCHANGED <<err, cur_pos, hdmem, zmem, bufmem, callervars, engine, left>>

(***************************************************************************)
(* mhd_gtls_comp_deinit (handle, d)                                        *)
(***************************************************************************)
CallDeinit(t, s) ==
  /\ pc[t] = "idle"
  /\ fr' = [fr EXCEPT ![t] = [FrIdle EXCEPT !.fn = "comp_deinit", !.s = s,
                                            !.handle = hvar[s], !.d = SlotDir(s)]]
  /\ pc' = [pc EXCEPT ![t] = "deinit_run"]
  /\ UNCHANGED <<err, cur_pos, memvars, callervars, engine, left>>

\* the engine's end operation is called for the deflate algorithm only
DeinitEnds(algo) == algo = MHD_GNUTLS_COMP_DEFLATE

\* the teardown without the free of the engine state
DeinitFrees_handle_only(handle, zhandle) == <<handle>>

\* gnutls_free (handle->handle); gnutls_free (handle)
DeinitFrees(handle, zhandle) == <<zhandle, handle>>

RECURSIVE FreeAll(_, _)
FreeAll(A, ps) == IF ps = <<>> THEN A ELSE FreeAll(Free(A, Head(ps)), Tail(ps))

RECURSIVE AnyBadFree(_, _)
AnyBadFree(A, ps) ==
  IF ps = <<>> THEN FALSE
  ELSE IsBadFree(A, Head(ps)) \/ AnyBadFree(Free(A, Head(ps)), Tail(ps))

NonNull(ps) == Cardinality({i \in 1..Len(ps) : ps[i] # NULL})

deinit_run(t) ==
  LET f == fr[t]
      s == f.s
      ends == DeinitEnds(hdmem[s].algo)
      frees == DeinitFrees(f.handle, hdmem[s].handle)
  IN
  /\ pc[t] = "deinit_run"
  /\ IF f.handle # NULL
     THEN /\ \E e \in {Z_OK, Z_DATA_ERROR} :
               /\ err' = IF ends THEN e ELSE err
               /\ fr' = [fr EXCEPT ![t] =
                           [f EXCEPT !.ecalls = IF ends THEN 1 ELSE 0,
                                     !.own_err = IF ends THEN e ELSE @,
                                     !.nfree = NonNull(frees)]]
          /\ zmem' = [zmem EXCEPT ![s] = IF ends THEN [@ EXCEPT !.mode = "ENDED"] ELSE @]
          /\ allocated' = FreeAll(allocated, frees)
          /\ badfree' = (badfree \/ AnyBadFree(allocated, frees))
     ELSE UNCHANGED <<err, fr, zmem, allocated, badfree>>
  /\ pc' = [pc EXCEPT ![t] = "ret"]
  /\ UNCHANGED <<cur_pos, hdmem, bufmem, callervars, engine, left>>

(***************************************************************************)
(* The engine the adapter runs on.  The unconstrained engine is kept from  *)
(* asking for more than MaxIter engine calls in one invocation.            *)
(***************************************************************************)
\* the loop without its second condition
GrowAgain_buf_only(e, avail_out, out_size, max_record_size, avail_in) ==
  e = Z_BUF_ERROR /\ avail_out = 0 /\ out_size < max_record_size

\* the loop without the maximum in its first condition
GrowAgain_no_ceiling(e, avail_out, out_size, max_record_size, avail_in) ==
  \/ (e = Z_BUF_ERROR /\ avail_out = 0)
  \/ (e = Z_OK /\ avail_in # 0)

\* while ((err == Z_BUF_ERROR && zhandle->avail_out == 0
\*         && out_size < max_record_size)
\*        || (err == Z_OK && zhandle->avail_in != 0))
GrowAgain(e, avail_out, out_size, max_record_size, avail_in) ==
  \/ (e = Z_BUF_ERROR /\ avail_out = 0 /\ out_size < max_record_size)
  \/ (e = Z_OK /\ avail_in # 0)

DeflateOutcomes(z) ==
  IF engine = "zlib" THEN {Deflate(z)}
  ELSE IF engine = "contract" THEN ContractEngine(z)
  ELSE AnyEngine(z)

InflateOutcomes(z, f) ==
  IF engine = "zlib" THEN {Inflate(z)}
  ELSE IF engine = "contract" THEN ContractEngine(z)
  ELSE { o \in AnyEngine(z) :
           f.ecalls + 1 < MaxIter
           \/ ~GrowAgain(o.ret, o.z.avail_out, f.out_size, f.max, o.z.avail_in) }

(***************************************************************************)
(* mhd_gtls_compress (handle, plain, plain_size, compressed, max_comp_size)*)
(***************************************************************************)
StartCompress(t, s, p, max, o) ==
  /\ fr' = [fr EXCEPT ![t] =
              [FrIdle EXCEPT !.fn = "compress", !.s = s, !.handle = hvar[s],
                             !.in = p, !.in_size = BLen(p), !.max = max,
                             !.outp = o, !.z0 = zmem[s]]]
  /\ pc' = [pc EXCEPT ![t] = "comp_entry"]

CallCompress(t, s) ==
  /\ pc[t] = "idle"
  /\ SlotDir(s) = 0
  /\ \E p \in Plains, max \in MaxSizes, o \in {NULL, WILD} :
       StartCompress(t, s, p, max, o)
  /\ UNCHANGED <<err, cur_pos, memvars, callervars, engine, left>>

\* the calls of the two-thread specification: one record, one maximum
SlotsOf(t) == IF t = 1 THEN {1, 3} ELSE {2}

\* a thread of the two-thread specification makes MaxCallsMT calls, on the
\* handle it holds; no call is started once a thread has left the code
MTReady(t) ==
  /\ \A u \in Threads : pc[u] \notin {"ub", "capped"}
  /\ left[t] # 0

CallCompressMT(t, s) ==
  /\ MTReady(t)
  /\ hvar[s] # NULL
  /\ pc[t] = "idle"
  /\ SlotDir(s) = 0
  /\ StartCompress(t, s, <<Raw("A", 1100)>>, 1100, NULL)
  /\ UNCHANGED <<err, cur_pos, memvars, callervars, engine, left>>

\* the switch with every algorithm taken for deflate
DeflateCase_always(algo) == TRUE

\* switch (handle->algo): case MHD_GNUTLS_COMP_DEFLATE, or the default
DeflateCase(algo) == algo = MHD_GNUTLS_COMP_DEFLATE

\* the functions without the test of the handle
NoHandle_never(handle) == FALSE

\* if (handle == NULL)
NoHandle(handle) == handle = NULL

\* size = (plain_size + plain_size) + 10
CompSize(plain_size) == (plain_size + plain_size) + 10

\* if (err != Z_OK || zhandle->avail_in != 0)
DeflateFailed(e, avail_in) == e # Z_OK \/ avail_in # 0

\* the function without its last test
CompOverMax_never(compressed_size, max_comp_size) == FALSE

\* if ((size_t) compressed_size > max_comp_size)
CompOverMax(compressed_size, max_comp_size) == compressed_size > max_comp_size

comp_entry(t) ==
  LET f == fr[t]
      s == f.s
  IN
  /\ pc[t] = "comp_entry"
  /\ IF NoHandle(f.handle)
     THEN /\ fr' = [fr EXCEPT ![t] = Returned(f, GNUTLS_E_INTERNAL_ERROR)]
          /\ pc' = [pc EXCEPT ![t] = "ret"]
          /\ UNCHANGED memvars
     ELSE IF f.handle \notin allocated
     THEN \* handle->algo read through a null or dangling pointer
          /\ pc' = [pc EXCEPT ![t] = "ub"]
          /\ UNCHANGED <<fr, memvars>>
     ELSE IF ~DeflateCase(hdmem[s].algo)
     THEN /\ fr' = [fr EXCEPT ![t] = Returned(f, GNUTLS_E_INTERNAL_ERROR)]
          /\ pc' = [pc EXCEPT ![t] = "ret"]
          /\ UNCHANGED memvars
     ELSE \/ \* *compressed = gnutls_malloc (size) fails
             /\ fr' = [fr EXCEPT ![t] =
                         [Returned(f, GNUTLS_E_MEMORY_ERROR) EXCEPT
                            !.size = CompSize(f.in_size), !.outp = NULL, !.oom = TRUE]]
             /\ pc' = [pc EXCEPT ![t] = "ret"]
             /\ UNCHANGED memvars
          \/ /\ allocated' = allocated \cup {BufBlock(t)}
             /\ bufmem' = [bufmem EXCEPT ![t] =
                             [size |-> CompSize(f.in_size), data |-> <<>>]]
             /\ zmem' = [zmem EXCEPT ![s] =
                           [@ EXCEPT !.next_in = f.in, !.avail_in = f.in_size,
                                     !.next_out = BufBlock(t), !.out_off = 0,
                                     !.avail_out = CompSize(f.in_size)]]
             /\ fr' = [fr EXCEPT ![t] =
                         [f EXCEPT !.size = CompSize(f.in_size),
                                   !.outp = BufBlock(t), !.nalloc = 1]]
             /\ pc' = [pc EXCEPT ![t] = "comp_deflate"]
             /\ UNCHANGED <<badfree, hdmem>>
  /\ UNCHANGED <<err, cur_pos, callervars, engine, left>>

\* err = deflate (zhandle, Z_SYNC_FLUSH)
comp_deflate(t) ==
  LET f == fr[t]
      s == f.s
      z == zmem[s]
  IN
  /\ pc[t] = "comp_deflate"
  /\ \E o \in DeflateOutcomes(z) :
       /\ err' = o.ret
       /\ zmem' = [zmem EXCEPT ![s] = o.z]
       /\ bufmem' = [bufmem EXCEPT ![t].data = WriteAt(@, z.out_off, o.out)]
       /\ fr' = [fr EXCEPT ![t] = [f EXCEPT !.ecalls = @ + 1, !.own_err = o.ret]]
  /\ pc' = [pc EXCEPT ![t] = "comp_check"]
  /\ UNCHANGED <<cur_pos, allocated, badfree, hdmem, callervars, engine, left>>

comp_check(t) ==
  LET f == fr[t]
      s == f.s
      compressed_size == f.size - zmem[s].avail_out
      fails == DeflateFailed(err, zmem[s].avail_in)
               \/ CompOverMax(compressed_size, f.max)
  IN
  /\ pc[t] = "comp_check"
  /\ IF fails
     THEN /\ allocated' = Free(allocated, f.outp)
          /\ badfree' = (badfree \/ IsBadFree(allocated, f.outp))
          /\ fr' = [fr EXCEPT ![t] =
                      [Returned(f, GNUTLS_E_COMPRESSION_FAILED) EXCEPT
                         !.outp = NULL, !.nfree = @ + 1]]
     ELSE /\ fr' = [fr EXCEPT ![t] = Returned(f, compressed_size)]
          /\ UNCHANGED <<allocated, badfree>>
  /\ pc' = [pc EXCEPT ![t] = "ret"]
  /\ UNCHANGED <<err, cur_pos, hdmem, zmem, bufmem, callervars, engine, left>>

(***************************************************************************)
(* mhd_gtls_decompress (handle, compressed, compressed_size, plain,        *)
(*                      max_record_size)                                   *)
(***************************************************************************)
StartDecompress(t, s, in, max, o, w, expect) ==
  /\ fr' = [fr EXCEPT ![t] =
              [FrIdle EXCEPT !.fn = "decompress", !.s = s, !.handle = hvar[s],
                             !.in = in, !.in_size = BLen(in), !.max = max,
                             !.outp = o, !.z0 = zmem[s],
                             !.from_wire = w, !.expect = expect,
                             !.true_size = IF hvar[s] # NULL
                                           THEN TrueSize(zmem[s], in) ELSE 0]]
  /\ pc' = [pc EXCEPT ![t] = "dec_entry"]

\* a record from a peer that does not use the coder
CallDecompress(t, s) ==
  /\ pc[t] = "idle"
  /\ SlotDir(s) = 1
  /\ hvar[s] = NULL \/ nforged[s] < MaxForged
  /\ nforged' = IF hvar[s] = NULL THEN nforged ELSE [nforged EXCEPT ![s] = @ + 1]
  /\ \E in \in ForgedFor(zmem[s]), max \in MaxSizes, o \in {NULL, WILD} :
       StartDecompress(t, s, in, max, o, FALSE, <<>>)
  /\ UNCHANGED <<err, cur_pos, memvars, hvar, wire, cseq, dnext, engine, left>>

\* the call of the two-thread specification: one well-formed record, the
\* first the handle is given
CallDecompressMT(t, s) ==
  /\ MTReady(t)
  /\ hvar[s] # NULL
  /\ pc[t] = "idle"
  /\ SlotDir(s) = 1
  /\ nforged[s] = 0
  /\ nforged' = [nforged EXCEPT ![s] = 1]
  /\ StartDecompress(t, s,
                     (IF zmem[s].mode = "HEAD" THEN <<Hdr>> ELSE <<>>)
                     \o <<Rep("A", 1100), Sync>>,
                     1100, NULL, FALSE, <<Raw("A", 1100)>>)
  /\ UNCHANGED <<err, cur_pos, memvars, hvar, wire, cseq, dnext, engine, left>>

\* the next record slot 1 has coded, handed in order to slot 2
CallDecompressWire(t, s) ==
  /\ pc[t] = "idle"
  /\ SlotDir(s) = 1
  /\ hvar[s] # NULL
  /\ wire # <<>> /\ Head(wire).seq = dnext
  /\ \E max \in MaxSizes, o \in {NULL, WILD} :
       StartDecompress(t, s, Head(wire).comp, max, o, TRUE, Head(wire).plain)
  /\ wire' = Tail(wire)
  /\ UNCHANGED <<err, cur_pos, memvars, hvar, cseq, dnext, nforged, engine, left>>

\* the function without the upfront test
TooBig_never(compressed_size, max_record_size) == FALSE

\* if (compressed_size > max_record_size + EXTRA_COMP_SIZE)
TooBig(compressed_size, max_record_size) ==
  compressed_size > max_record_size + EXTRA_COMP_SIZE

\* out_size = compressed_size + compressed_size
InitOutSize(compressed_size) == compressed_size + compressed_size

\* the function without the test of the final status
InflateFailed_never(e) == FALSE

\* if (err != Z_OK)
InflateFailed(e) == e # Z_OK

\* the function without the final test
PlainOverMax_never(plain_size, max_record_size) == FALSE

\* if ((size_t) plain_size > max_record_size)
PlainOverMax(plain_size, max_record_size) == plain_size > max_record_size

\* mhd_gtls_realloc_fast when the reallocation fails: the old block is freed
ReallocFastFailed(A, ptr) == Free(A, ptr)

dec_entry(t) ==
  LET f == fr[t]
      s == f.s
  IN
  /\ pc[t] = "dec_entry"
  /\ IF TooBig(f.in_size, f.max)
     THEN /\ fr' = [fr EXCEPT ![t] = Returned(f, GNUTLS_E_DECOMPRESSION_FAILED)]
          /\ pc' = [pc EXCEPT ![t] = "ret"]
          /\ UNCHANGED <<cur_pos, zmem>>
     ELSE IF NoHandle(f.handle)
     THEN /\ fr' = [fr EXCEPT ![t] = Returned(f, GNUTLS_E_INTERNAL_ERROR)]
          /\ pc' = [pc EXCEPT ![t] = "ret"]
          /\ UNCHANGED <<cur_pos, zmem>>
     ELSE IF f.handle \notin allocated
     THEN \* handle->algo read through a null or dangling pointer
          /\ pc' = [pc EXCEPT ![t] = "ub"]
          /\ UNCHANGED <<fr, cur_pos, zmem>>
     ELSE IF ~DeflateCase(hdmem[s].algo)
     THEN /\ fr' = [fr EXCEPT ![t] = Returned(f, GNUTLS_E_INTERNAL_ERROR)]
          /\ pc' = [pc EXCEPT ![t] = "ret"]
          /\ UNCHANGED <<cur_pos, zmem>>
     ELSE /\ fr' = [fr EXCEPT ![t] =
                      [f EXCEPT !.outp = NULL, !.out_size = InitOutSize(f.in_size),
                                !.rv = 0, !.own_cur_pos = 0]]
          /\ zmem' = [zmem EXCEPT ![s] =
                        [@ EXCEPT !.next_in = f.in, !.avail_in = f.in_size]]
          /\ cur_pos' = 0
          /\ pc' = [pc EXCEPT ![t] = "dec_grow"]
  /\ UNCHANGED <<err, allocated, badfree, hdmem, bufmem, callervars, engine, left>>

\* out_size += 512; *plain = mhd_gtls_realloc_fast (*plain, out_size);
\* zhandle->next_out = *plain + cur_pos; zhandle->avail_out = out_size - cur_pos
dec_grow(t) ==
  LET f == fr[t]
      s == f.s
      out_size == f.out_size + GROW_STEP
  IN
  /\ pc[t] = "dec_grow"
  /\ \/ /\ allocated' = ReallocFastFailed(allocated, f.outp)
        /\ fr' = [fr EXCEPT ![t] =
                    [Returned(f, GNUTLS_E_MEMORY_ERROR) EXCEPT
                       !.out_size = out_size, !.outp = NULL, !.oom = TRUE,
                       !.nfree = IF f.outp # NULL THEN @ + 1 ELSE @]]
        /\ pc' = [pc EXCEPT ![t] = "ret"]
        /\ UNCHANGED <<zmem, bufmem>>
     \/ /\ allocated' = allocated \cup {BufBlock(t)}
        /\ bufmem' = [bufmem EXCEPT ![t] =
                        [size |-> out_size,
                         data |-> IF f.outp = NULL THEN <<>> ELSE @.data]]
        /\ fr' = [fr EXCEPT ![t] =
                    [f EXCEPT !.out_size = out_size, !.outp = BufBlock(t),
                              !.nalloc = @ + 1]]
        /\ IF cur_pos > out_size
           THEN \* next_out lies beyond the buffer
                /\ pc' = [pc EXCEPT ![t] = "ub"]
                /\ UNCHANGED zmem
           ELSE /\ zmem' = [zmem EXCEPT ![s] =
                              [@ EXCEPT !.next_out = BufBlock(t),
                                        !.out_off = cur_pos,
                                        !.avail_out = out_size - cur_pos]]
                /\ pc' = [pc EXCEPT ![t] = "dec_inflate"]
  /\ UNCHANGED <<err, cur_pos, badfree, hdmem, callervars, engine, left>>

\* err = inflate (zhandle, Z_SYNC_FLUSH)
dec_inflate(t) ==
  LET f == fr[t]
      s == f.s
      z == zmem[s]
  IN
  /\ pc[t] = "dec_inflate"
  /\ \E o \in InflateOutcomes(z, f) :
       /\ err' = o.ret
       /\ zmem' = [zmem EXCEPT ![s] = o.z]
       /\ bufmem' = [bufmem EXCEPT ![t].data = WriteAt(@, z.out_off, o.out)]
       /\ fr' = [fr EXCEPT ![t] = [f EXCEPT !.ecalls = @ + 1, !.own_err = o.ret]]
  /\ pc' = [pc EXCEPT ![t] = "dec_pos"]
  /\ UNCHANGED <<cur_pos, allocated, badfree, hdmem, callervars, engine, left>>

\* cur_pos = out_size - zhandle->avail_out
dec_pos(t) ==
  LET f == fr[t]
      p == f.out_size - zmem[f.s].avail_out
  IN
  /\ pc[t] = "dec_pos"
  /\ cur_pos' = p
  /\ fr' = [fr EXCEPT ![t].own_cur_pos = p]
  /\ pc' = [pc EXCEPT ![t] = "dec_while"]
  /\ UNCHANGED <<err, memvars, callervars, engine, left>>

\* the loop condition; a thread past MaxIter engine calls is not followed
dec_while(t) ==
  LET f == fr[t]
      z == zmem[f.s]
  IN
  /\ pc[t] = "dec_while"
  /\ pc' = [pc EXCEPT ![t] =
              IF GrowAgain(err, z.avail_out, f.out_size, f.max, z.avail_in)
              THEN IF f.ecalls < MaxIter THEN "dec_grow" ELSE "capped"
              ELSE "dec_after"]
  /\ UNCHANGED <<err, cur_pos, memvars, fr, callervars, engine, left>>

\* the passes after MaxIter engine calls, with the engine held to its contract
\* only: lines 249-258 grow the buffer by 512 bytes, inflate fills part of
\* them and leaves input, and the second loop condition holds again.  The
\* sizes of these passes are not followed.
dec_far(t) ==
  /\ engine = "contract"
  /\ fr[t].fn = "decompress"
  /\ fr[t].own_err = Z_OK
  /\ zmem[fr[t].s].avail_in # 0
  /\ \/ pc[t] = "capped" /\ pc' = [pc EXCEPT ![t] = "far_inflate"]
     \/ pc[t] = "far_inflate" /\ pc' = [pc EXCEPT ![t] = "capped"]
  /\ UNCHANGED <<err, cur_pos, memvars, fr, callervars, engine, left>>

dec_after(t) ==
  LET f == fr[t]
      s == f.s
      plain_size == f.out_size - zmem[s].avail_out
      fails == InflateFailed(err) \/ PlainOverMax(plain_size, f.max)
  IN
  /\ pc[t] = "dec_after"
  /\ IF fails
     THEN /\ allocated' = Free(allocated, f.outp)
          /\ badfree' = (badfree \/ IsBadFree(allocated, f.outp))
          /\ fr' = [fr EXCEPT ![t] =
                      [Returned(f, GNUTLS_E_DECOMPRESSION_FAILED) EXCEPT
                         !.outp = NULL, !.nfree = @ + 1]]
     ELSE /\ fr' = [fr EXCEPT ![t] = Returned(f, plain_size)]
          /\ UNCHANGED <<allocated, badfree>>
  /\ pc' = [pc EXCEPT ![t] = "ret"]
  /\ UNCHANGED <<err, cur_pos, hdmem, zmem, bufmem, callervars, engine, left>>

(***************************************************************************)
(* The caller takes the result: it keeps the handle mhd_gtls_comp_init     *)
(* returned, forgets the one it gave to mhd_gtls_comp_deinit, sends a      *)
(* coded record and frees the buffer of a successful call.  Records are    *)
(* numbered up to MaxRecords; nothing more is sent once a record was lost. *)
(***************************************************************************)
\* the cursors of a stream between calls: every call sets them before the
\* engine reads them
Forget(z) ==
  [z EXCEPT !.next_in = <<>>, !.avail_in = 0, !.next_out = NULL,
            !.out_off = 0, !.avail_out = 0]

Return(t) ==
  LET f == fr[t]
      s == f.s
      ok == f.fn \in {"compress", "decompress"} /\ f.rv >= 0
      sent == f.fn = "compress" /\ ok /\ engine = "zlib" /\ cseq < MaxRecords
      renew == f.fn \in {"comp_init", "comp_deinit"}
      \* a record the engine has coded and the caller does not send
      lost == f.fn = "compress" /\ ~ok /\ f.ecalls > 0
      quiet == \A u \in Threads \ {t} : pc[u] = "idle"
  IN
  /\ pc[t] = "ret"
  /\ pc' = [pc EXCEPT ![t] = "idle"]
  /\ fr' = [fr EXCEPT ![t] = FrIdle]
  /\ hvar' = [hvar EXCEPT ![s] = IF f.fn = "comp_init" THEN f.ret
                                 ELSE IF f.fn = "comp_deinit" THEN NULL ELSE @]
  /\ allocated' = IF ok THEN Free(allocated, f.outp) ELSE allocated
  /\ badfree' = (badfree \/ (ok /\ IsBadFree(allocated, f.outp)))
  /\ bufmem' = [bufmem EXCEPT ![t] = BufNone]
  /\ zmem' = [zmem EXCEPT ![s] = IF ZBlock(s) \in allocated'
                                 THEN Forget(@) ELSE ZUninit]
  /\ hdmem' = [hdmem EXCEPT ![s] = IF HdBlock(s) \in allocated' THEN @ ELSE HdNone]
  \* with no call in progress err and cur_pos are written before they are read
  /\ err' = IF quiet THEN Z_OK ELSE err
  /\ cur_pos' = IF quiet THEN 0 ELSE cur_pos
  /\ cseq' = IF SlotDir(s) # 0 THEN cseq
             ELSE IF renew THEN 0
             ELSE IF lost THEN MaxRecords
             ELSE IF sent THEN cseq + 1 ELSE cseq
  /\ wire' = IF SlotDir(s) # 0 THEN wire
             ELSE IF renew THEN <<>>
             ELSE IF sent
             THEN Append(wire, [seq |-> cseq + 1,
                                comp |-> BTake(bufmem[t].data, f.rv),
                                plain |-> f.in])
             ELSE wire
  /\ dnext' = IF s # 2 THEN dnext
              ELSE IF f.fn = "comp_init" THEN 1
              ELSE IF f.fn = "comp_deinit" THEN 0
              ELSE IF f.ecalls = 0 THEN dnext
              ELSE IF f.from_wire /\ ok THEN dnext + 1 ELSE 0
  /\ nforged' = IF renew THEN [nforged EXCEPT ![s] = 0] ELSE nforged
  /\ left' = [left EXCEPT ![t] = IF @ > 0 THEN @ - 1 ELSE @]
  /\ UNCHANGED engine

(***************************************************************************)
(* Specifications.  Spec: one thread works slots 1 and 2, one call at a    *)
(* time.  SpecMT: two threads interleaved step by step, thread 1 on slots  *)
(* 1 and 3, thread 2 on slot 2, so that no handle is used by two threads;  *)
(* the engine is zlib and each thread makes MaxCallsMT calls.  SpecLive:   *)
(* one thread makes MaxCallsLive calls, the engine is zlib, or one held to *)
(* its contract only, or any; a decompress call that has begun runs on.    *)
(***************************************************************************)
Calls(t, s) ==
  \/ CallInit(t, s)
  \/ CallDeinit(t, s)
  \/ CallCompress(t, s)
  \/ CallDecompress(t, s)
  \/ CallDecompressWire(t, s)

Step(t) ==
  \/ init_alloc(t)
  \/ init_engine(t)
  \/ init_check(t)
  \/ deinit_run(t)
  \/ comp_entry(t)
  \/ comp_deflate(t)
  \/ comp_check(t)
  \/ dec_entry(t)
  \/ dec_grow(t)
  \/ dec_inflate(t)
  \/ dec_pos(t)
  \/ dec_while(t)
  \/ dec_after(t)
  \/ Return(t)

Next == (\E s \in {1, 2} : Calls(1, s)) \/ Step(1)

Spec == Init /\ [][Next]_vars

\* the sequential program with an engine of each kind
InitLive ==
  /\ Init0
  /\ engine \in {"zlib", "contract", "any"}
  /\ left = [t \in Threads |-> MaxCallsLive]

\* the caller makes MaxCallsLive calls, on deflate handles
LiveReady(t) == left[t] # 0

CallInitLive(t, s) ==
  /\ LiveReady(t)
  /\ CallInit(t, s)
  /\ fr'[t].method = MHD_GNUTLS_COMP_DEFLATE

CallCompressLive(t, s) ==
  /\ LiveReady(t)
  /\ CallCompress(t, s)

CallDecompressLive(t, s) ==
  /\ LiveReady(t)
  /\ CallDecompress(t, s)

CallDecompressWireLive(t, s) ==
  /\ LiveReady(t)
  /\ CallDecompressWire(t, s)

CallsLive(t, s) ==
  \/ CallInitLive(t, s)
  \/ CallCompressLive(t, s)
  \/ CallDecompressLive(t, s)
  \/ CallDecompressWireLive(t, s)

StepLive(t) ==
  \/ init_alloc(t)
  \/ init_engine(t)
  \/ init_check(t)
  \/ comp_entry(t)
  \/ comp_deflate(t)
  \/ comp_check(t)
  \/ dec_entry(t)
  \/ dec_grow(t)
  \/ dec_inflate(t)
  \/ dec_pos(t)
  \/ dec_while(t)
  \/ dec_after(t)
  \/ dec_far(t)
  \/ Return(t)

NextLive == (\E s \in {1, 2} : CallsLive(1, s)) \/ StepLive(1)

\* a call of mhd_gtls_decompress that has begun runs on: nothing else runs in
\* the thread until it returns
DecompressRuns(t) ==
  \/ dec_entry(t)
  \/ dec_grow(t)
  \/ dec_inflate(t)
  \/ dec_pos(t)
  \/ dec_while(t)
  \/ dec_after(t)
  \/ dec_far(t)

SpecLive == InitLive /\ [][NextLive]_vars /\ WF_vars(DecompressRuns(1))

\* a thread holds one handle at a time, a deflate handle
CallInitMT(t, s) ==
  /\ MTReady(t)
  /\ \A u \in SlotsOf(t) \ {s} : hvar[u] = NULL
  /\ CallInit(t, s)
  /\ fr'[t].method = MHD_GNUTLS_COMP_DEFLATE

CallDeinitMT(t, s) ==
  /\ MTReady(t)
  /\ hvar[s] # NULL
  /\ CallDeinit(t, s)

CallsMT(t, s) ==
  \/ CallInitMT(t, s)
  \/ CallDeinitMT(t, s)
  \/ CallCompressMT(t, s)
  \/ CallDecompressMT(t, s)

InitMT ==
  /\ Init0
  /\ engine = "zlib"
  /\ left = [t \in Threads |-> MaxCallsMT]

NextMT == \E t \in Threads : (\E s \in SlotsOf(t) : CallsMT(t, s)) \/ Step(t)

SpecMT == InitMT /\ [][NextMT]_vars


(***************************************************************************)
(* Properties.                                                             *)
(***************************************************************************)
InCall(t, fn) == fr[t].fn = fn
AtReturn(t, fn) == pc[t] = "ret" /\ fr[t].fn = fn
Transform(t) == fr[t].fn \in {"compress", "decompress"}
Deflating(t) ==
  fr[t].handle # NULL /\ hdmem[fr[t].s].algo = MHD_GNUTLS_COMP_DEFLATE

\* C1: a length returned by mhd_gtls_compress is at most max_comp_size and
\* a length returned by mhd_gtls_decompress is at most max_record_size,
\* whatever the engine does.
C1_BoundEnforcement ==
  \A t \in Threads :
    (pc[t] = "ret" /\ Transform(t) /\ fr[t].rv >= 0) => fr[t].rv <= fr[t].max

C1_Witness ==
  \E t \in Threads :
    /\ AtReturn(t, "decompress") /\ fr[t].rv = fr[t].max /\ fr[t].ecalls >= 1

\* C2: a record whose decompressed size exceeds max_record_size is never
\* answered with a success (a shorter prefix of the payload).
C2_NoSilentTruncation ==
  \A t \in Threads :
    (AtReturn(t, "decompress") /\ engine = "zlib" /\ Deflating(t)
     /\ fr[t].true_size > fr[t].max)
    => fr[t].rv < 0

C4_BombRejection ==
  \A t \in Threads :
    (AtReturn(t, "decompress")
     /\ fr[t].in_size > fr[t].max + EXTRA_COMP_SIZE)
    => /\ fr[t].rv = GNUTLS_E_DECOMPRESSION_FAILED
       /\ fr[t].ecalls = 0 /\ fr[t].nalloc = 0
       /\ BufBlock(t) \notin allocated
       /\ zmem[fr[t].s] = fr[t].z0

C4_Witness ==
  \E t \in Threads :
    /\ AtReturn(t, "decompress") /\ Deflating(t)
    /\ fr[t].in_size > fr[t].max + EXTRA_COMP_SIZE
    /\ zmem[fr[t].s].mode = "BLOCKS"

\* C5: on every failure of mhd_gtls_compress and mhd_gtls_decompress the
\* caller's output pointer is null and no buffer of the call is left
\* allocated or freed twice.
C5_CleanFailureOutput ==
  \A t \in Threads :
    (pc[t] = "ret" /\ Transform(t) /\ fr[t].rv < 0)
    => /\ fr[t].outp = NULL
       /\ BufBlock(t) \notin allocated
       /\ ~badfree

\* C6: when the allocator fails in mhd_gtls_comp_init, mhd_gtls_compress or
\* mhd_gtls_decompress, the call fails (no handle, GNUTLS_E_MEMORY_ERROR),
\* what it had allocated is freed and nothing of it reaches the caller.
C6_AllocFailureSafety ==
  \A t \in Threads :
    (pc[t] = "ret" /\ fr[t].oom)
    => /\ ~badfree
       /\ InCall(t, "comp_init") =>
            /\ fr[t].ret = NULL
            /\ HdBlock(fr[t].s) \notin allocated
            /\ ZBlock(fr[t].s) \notin allocated
       /\ Transform(t) =>
            /\ fr[t].rv = GNUTLS_E_MEMORY_ERROR
            /\ fr[t].outp = NULL
            /\ BufBlock(t) \notin allocated

C6_Witness ==
  \E t \in Threads :
    /\ AtReturn(t, "decompress") /\ fr[t].oom
    /\ fr[t].nalloc >= 1 /\ fr[t].ecalls >= 1 /\ fr[t].nfree = 1

\* C7: no growth step is taken once out_size has reached max_record_size,
\* so the buffer never exceeds max_record_size plus one increment.
C7_HardCeiling ==
  \A t \in Threads :
    /\ (pc[t] = "dec_grow" /\ fr[t].ecalls >= 1) => fr[t].out_size < fr[t].max
    /\ (InCall(t, "decompress") /\ BufBlock(t) \in allocated)
         => bufmem[t].size <= fr[t].max + GROW_STEP

\* C8: err and cur_pos belong to the invocation: where a call reads err
\* (after the engine call of init, compress and decompress, in the loop
\* condition) it finds the status of its own engine call, where the growth
\* loop reads cur_pos it finds the position it has computed itself, and so a
\* call interleaved with a call on another handle ends as it does alone.
C8_NoSharedScratch ==
  \A t \in Threads :
    /\ pc[t] \in {"init_check", "comp_check", "dec_while", "dec_after"}
         => err = fr[t].own_err
    /\ pc[t] = "dec_grow" => cur_pos = fr[t].own_cur_pos
    /\ pc[t] # "ub"
    /\ (AtReturn(t, "decompress") /\ Deflating(t) /\ ~fr[t].oom
        /\ fr[t].expect # <<>> /\ BLen(fr[t].expect) <= fr[t].max)
       => /\ fr[t].rv = BLen(fr[t].expect)
          /\ BTake(bufmem[t].data, fr[t].rv) = fr[t].expect

\* C9: mhd_gtls_comp_deinit does nothing on a null handle; on a handle it
\* ends the stream once if there is one, and frees the engine state and the
\* handle once each, leaving nothing of mhd_gtls_comp_init allocated.
C9_Teardown ==
  \A t \in Threads :
    AtReturn(t, "comp_deinit") =>
      LET s == fr[t].s
          deflate == hdmem[s].algo = MHD_GNUTLS_COMP_DEFLATE
      IN  IF fr[t].handle = NULL
          THEN fr[t].ecalls = 0 /\ fr[t].nfree = 0
          ELSE /\ fr[t].ecalls = (IF deflate THEN 1 ELSE 0)
               /\ fr[t].nfree = (IF deflate THEN 2 ELSE 1)
               /\ HdBlock(s) \notin allocated
               /\ ZBlock(s) \notin allocated
               /\ ~badfree

C9_Witness ==
  \E t \in Threads :
    /\ AtReturn(t, "comp_deinit") /\ fr[t].handle # NULL
    /\ fr[t].ecalls = 1 /\ fr[t].nfree = 2
    /\ fr[t].own_err # Z_OK
    /\ allocated = {}

\* C10 as claimed: with a null handle both functions fail with
\* GNUTLS_E_INTERNAL_ERROR whatever the sizes are.
C10_NullHandleAnySize ==
  \A t \in Threads :
    (pc[t] = "ret" /\ Transform(t) /\ fr[t].handle = NULL)
    => /\ fr[t].rv = GNUTLS_E_INTERNAL_ERROR
       /\ fr[t].ecalls = 0 /\ fr[t].nalloc = 0

\* C10: with a null handle both functions return without an engine call or
\* an allocation; the result is GNUTLS_E_INTERNAL_ERROR, except that
\* mhd_gtls_decompress answers a record longer than max_record_size +
\* EXTRA_COMP_SIZE with GNUTLS_E_DECOMPRESSION_FAILED.
C10_NullHandle ==
  \A t \in Threads :
    (Transform(t) /\ fr[t].handle = NULL)
    => /\ pc[t] \in {"comp_entry", "dec_entry", "ret"}
       /\ pc[t] = "ret" =>
            /\ fr[t].ecalls = 0 /\ fr[t].nalloc = 0
            /\ BufBlock(t) \notin allocated
            /\ fr[t].rv = IF InCall(t, "decompress")
                             /\ fr[t].in_size > fr[t].max + EXTRA_COMP_SIZE
                          THEN GNUTLS_E_DECOMPRESSION_FAILED
                          ELSE GNUTLS_E_INTERNAL_ERROR

C10_Witness ==
  \E t \in Threads :
    /\ AtReturn(t, "decompress") /\ fr[t].handle = NULL
    /\ fr[t].in_size > fr[t].max + EXTRA_COMP_SIZE
    /\ fr[t].rv = GNUTLS_E_DECOMPRESSION_FAILED
    /\ fr[t].ecalls = 0 /\ fr[t].nalloc = 0

\* the compress call on a deflate handle, what its engine call left, and
\* whether the three conditions of a success hold
Produced(t) == fr[t].size - zmem[fr[t].s].avail_out
CompressGood(t) ==
  /\ fr[t].own_err = Z_OK
  /\ zmem[fr[t].s].avail_in = 0
  /\ Produced(t) <= fr[t].max

\* C11 as claimed: every mhd_gtls_compress call on a deflate handle calls
\* the engine once and returns either a length or
\* GNUTLS_E_COMPRESSION_FAILED.
C11_CompressOutcomeAlways ==
  \A t \in Threads :
    (AtReturn(t, "compress") /\ Deflating(t))
    => /\ fr[t].ecalls = 1
       /\ fr[t].rv >= 0 \/ fr[t].rv = GNUTLS_E_COMPRESSION_FAILED

\* C11: when the buffer of 2 * plain_size + 10 bytes is allocated,
\* mhd_gtls_compress on a deflate handle calls the engine once; it returns
\* the produced length and hands over the buffer exactly when the engine
\* reported Z_OK, left no input and produced at most max_comp_size, and
\* GNUTLS_E_COMPRESSION_FAILED with the buffer freed otherwise.  When the
\* allocation fails it returns GNUTLS_E_MEMORY_ERROR with no engine call.
C11_CompressOutcome ==
  \A t \in Threads :
    (AtReturn(t, "compress") /\ Deflating(t))
    => IF fr[t].oom
       THEN /\ fr[t].rv = GNUTLS_E_MEMORY_ERROR
            /\ fr[t].ecalls = 0 /\ fr[t].nalloc = 0
       ELSE /\ fr[t].ecalls = 1 /\ fr[t].nalloc = 1
            /\ fr[t].size = 2 * fr[t].in_size + 10
            /\ IF CompressGood(t)
               THEN /\ fr[t].rv = Produced(t)
                    /\ fr[t].outp = BufBlock(t)
                    /\ BufBlock(t) \in allocated
                    /\ bufmem[t].size = fr[t].size
               ELSE /\ fr[t].rv = GNUTLS_E_COMPRESSION_FAILED
                    /\ fr[t].outp = NULL
                    /\ BufBlock(t) \notin allocated

C11_Witness ==
  \E t \in Threads :
    /\ AtReturn(t, "compress") /\ Deflating(t) /\ ~fr[t].oom
    /\ fr[t].own_err = Z_OK /\ zmem[fr[t].s].avail_in = 0
    /\ Produced(t) > fr[t].max
    /\ fr[t].rv = GNUTLS_E_COMPRESSION_FAILED

\* C12: mhd_gtls_decompress returns a length only when its last engine call
\* reported Z_OK with no input left and with room left in the buffer
\* (avail_out > 0), never from a call that filled the buffer.
C12_SuccessExit ==
  \A t \in Threads :
    (AtReturn(t, "decompress") /\ fr[t].rv >= 0)
    => /\ fr[t].ecalls >= 1
       /\ fr[t].own_err = Z_OK
       /\ zmem[fr[t].s].avail_in = 0
       /\ zmem[fr[t].s].avail_out > 0

\* C13: when the loop of mhd_gtls_decompress ends on an engine status other
\* than Z_OK, the call returns GNUTLS_E_DECOMPRESSION_FAILED and has freed the
\* buffer; and the engine is called again only after Z_OK or Z_BUF_ERROR.
C13_StatusMapping ==
  \A t \in Threads :
    /\ (AtReturn(t, "decompress") /\ fr[t].ecalls >= 1 /\ ~fr[t].oom
        /\ fr[t].own_err # Z_OK)
       => /\ fr[t].rv = GNUTLS_E_DECOMPRESSION_FAILED
          /\ fr[t].outp = NULL
          /\ BufBlock(t) \notin allocated
          /\ fr[t].nfree = 1
    /\ (InCall(t, "decompress") /\ pc[t] \in {"dec_grow", "dec_inflate"}
        /\ fr[t].ecalls >= 1)
       => fr[t].own_err \in {Z_OK, Z_BUF_ERROR}
    /\ (InCall(t, "decompress") /\ fr[t].ecalls >= 1
        /\ fr[t].own_err \notin {Z_OK, Z_BUF_ERROR})
       => pc[t] \in {"dec_pos", "dec_while", "dec_after", "ret"}

\* the loop ended on Z_BUF_ERROR with the buffer full at or above the maximum
C13_Witness ==
  \E t \in Threads :
    /\ AtReturn(t, "decompress")
    /\ fr[t].ecalls >= 1
    /\ ~fr[t].oom
    /\ fr[t].own_err = Z_BUF_ERROR
    /\ zmem[fr[t].s].avail_out = 0
    /\ fr[t].out_size >= fr[t].max
    /\ fr[t].rv = GNUTLS_E_DECOMPRESSION_FAILED
    /\ BufBlock(t) \notin allocated

LiveHandle(s) ==
  /\ hvar[s] # NULL
  /\ \A t \in Threads : ~(fr[t].fn = "comp_deinit" /\ fr[t].s = s)

\* C15: a handle returned by mhd_gtls_comp_init and not yet deinitialised has
\* an engine state exactly when its algorithm is deflate and none when it is
\* the null algorithm, whatever compress and decompress calls were made on it;
\* the tag is the method asked for, and no step changes the tag or the
\* engine-state pointer while the handle lives.
C15_HandleInvariant ==
  /\ [](\A s \in Slots :
          LiveHandle(s) =>
            /\ hvar[s] = HdBlock(s)
            /\ HdBlock(s) \in allocated
            /\ hdmem[s].algo \in Methods
            /\ hdmem[s].algo = MHD_GNUTLS_COMP_DEFLATE
                 => hdmem[s].handle = ZBlock(s) /\ ZBlock(s) \in allocated
            /\ hdmem[s].algo = MHD_GNUTLS_COMP_NULL
                 => hdmem[s].handle = NULL /\ ZBlock(s) \notin allocated)
  /\ [](\A t \in Threads :
          (AtReturn(t, "comp_init") /\ fr[t].ret # NULL)
          => hdmem[fr[t].s].algo = fr[t].method)
  /\ [][\A s \in Slots :
          (LiveHandle(s) /\ LiveHandle(s)') => hdmem'[s] = hdmem[s]]_vars

\* a deflate-algorithm handle is alive at the return of a failed call that
\* had run the engine on it
C15_Witness ==
  \E t \in Threads :
    /\ AtReturn(t, "decompress")
    /\ fr[t].ecalls >= 1
    /\ fr[t].rv < 0
    /\ LiveHandle(fr[t].s)
    /\ hdmem[fr[t].s] = [algo |-> MHD_GNUTLS_COMP_DEFLATE, handle |-> ZBlock(fr[t].s)]
    /\ nforged[fr[t].s] >= 2

\* a call of compress or decompress on a handle of the null algorithm
NullAlgo(t) ==
  /\ Transform(t)
  /\ fr[t].handle # NULL
  /\ fr[t].handle \in allocated
  /\ hdmem[fr[t].s].algo = MHD_GNUTLS_COMP_NULL

\* C16 as claimed: on a handle of the null algorithm both functions return
\* GNUTLS_E_INTERNAL_ERROR whatever the sizes are.
C16_NullAlgoAnySize ==
  \A t \in Threads :
    (pc[t] = "ret" /\ NullAlgo(t))
    => /\ fr[t].rv = GNUTLS_E_INTERNAL_ERROR
       /\ fr[t].ecalls = 0 /\ fr[t].nalloc = 0

\* C16: on a non-null handle of the null algorithm both functions return
\* without an engine call, without touching the engine state and without
\* allocating a buffer; the result is GNUTLS_E_INTERNAL_ERROR, except that
\* mhd_gtls_decompress answers a record longer than max_record_size +
\* EXTRA_COMP_SIZE with GNUTLS_E_DECOMPRESSION_FAILED.
C16_NullAlgo ==
  \A t \in Threads :
    NullAlgo(t)
    => /\ pc[t] \in {"comp_entry", "dec_entry", "ret"}
       /\ hdmem[fr[t].s].handle = NULL
       /\ zmem[fr[t].s] = ZUninit
       /\ BufBlock(t) \notin allocated
       /\ fr[t].ecalls = 0 /\ fr[t].nalloc = 0
       /\ pc[t] = "ret" =>
            fr[t].rv = IF InCall(t, "decompress")
                          /\ fr[t].in_size > fr[t].max + EXTRA_COMP_SIZE
                       THEN GNUTLS_E_DECOMPRESSION_FAILED
                       ELSE GNUTLS_E_INTERNAL_ERROR

\* compress has returned the internal error on a handle of the null algorithm
C16_Witness ==
  \E t \in Threads :
    /\ AtReturn(t, "compress")
    /\ NullAlgo(t)
    /\ fr[t].in_size > 0
    /\ fr[t].rv = GNUTLS_E_INTERNAL_ERROR
    /\ fr[t].ecalls = 0 /\ fr[t].nalloc = 0

\* the shape of the state, and the sequential program never leaves its code
TypeOK ==
  /\ pc \in [Threads -> {"idle", "ret", "ub", "capped", "init_alloc", "init_engine",
                         "init_check", "deinit_run", "comp_entry", "comp_deflate",
                         "comp_check", "dec_entry", "dec_grow", "dec_inflate",
                         "dec_pos", "dec_while", "dec_after", "far_inflate"}]
  /\ \A s \in Slots : hvar[s] \in {NULL, HdBlock(s)}
  /\ (\A t \in Threads : pc[t] = "idle") =>
       /\ \A s \in Slots : hvar[s] # NULL => HdBlock(s) \in allocated
       /\ \A t \in Threads : BufBlock(t) \notin allocated
       /\ ~badfree
  /\ \A s \in Slots : zmem[s].avail_in = BLen(zmem[s].next_in) \/ engine # "zlib"
  /\ cseq \in 0..MaxRecords
  /\ nforged \in [Slots -> 0..MaxForged]
  /\ left \in [Threads -> -1..(MaxCallsMT + MaxCallsLive)]

Sequential == \A t \in Threads : pc[t] \notin {"ub", "capped"}

====
